---- MODULE Spec2Model ----
(***************************************************************************)
(* AddressCards: generate_multi_image.py (the postcard pipeline) and       *)
(* get_lost_uprns.py (the reconciliation utility).                         *)
(*                                                                         *)
(* Python strings are sequences of one-character strings, so that join,   *)
(* split, slicing, str() and lexicographic comparison are computed and     *)
(* not assumed.                                                            *)
(***************************************************************************)
EXTENDS Integers, Sequences, FiniteSets, TLC

(***************************************************************************)
(* Bounds of the model.                                                    *)
(***************************************************************************)
\* Largest week offset the data source returns.
MaxWeek == 1
\* SpecWrap: longest free-form string, and largest width besides the card's.
MaxLen == 6
MaxWidth == 3
\* SpecPdf: ./out holds k * 150 + d files, k up to MaxFullChunks, d up to MaxRest.
MaxFullChunks == 2
MaxRest == 20
\* Longest identifier sequence the identifier source returns.
MaxN == 9
\* Largest step between the pool positions of consecutive identifiers.
MaxStride == 2

(***************************************************************************)
(* Python string and list primitives.                                      *)
(***************************************************************************)
\* The characters in use, in code-point order.
Alphabet ==
    << " ", "-", ".", "/",
       "0", "1", "2", "3", "4", "5", "6", "7", "8", "9",
       "F", "J", "M", "N", "T", "W",
       "a", "b", "c", "d", "e", "f", "g", "h", "i", "j", "l", "m", "n", "o",
       "p", "r", "s", "t", "u", "y" >>

\* ord(c), up to a monotone renumbering of the alphabet in use.
Ord(c) == CHOOSE i \in DOMAIN Alphabet : Alphabet[i] = c

Range(s) == { s[i] : i \in DOMAIN s }

Min(a, b) == IF a <= b THEN a ELSE b

\* s[lo:hi] with 0-based, end-exclusive Python indices, 0 <= lo.
Slice(s, lo, hi) == SubSeq(s, lo + 1, Min(hi, Len(s)))

\* s[:-k] for k > 0.
DropLast(s, k) == IF Len(s) <= k THEN << >> ELSE SubSeq(s, 1, Len(s) - k)

\* s.endswith(suffix)
EndsWith(s, suffix) ==
    /\ Len(suffix) <= Len(s)
    /\ SubSeq(s, Len(s) - Len(suffix) + 1, Len(s)) = suffix

RECURSIVE Concat(_)
\* ''.join(list)
Concat(list) == IF list = << >> THEN << >> ELSE Head(list) \o Concat(Tail(list))

RECURSIVE Join(_, _)
\* sep.join(list)
Join(sep, list) ==
    IF list = << >> THEN << >>
    ELSE IF Len(list) = 1 THEN list[1]
    ELSE list[1] \o sep \o Join(sep, Tail(list))

RECURSIVE SplitFrom(_, _, _)
SplitFrom(s, ch, piece) ==
    IF s = << >> THEN << piece >>
    ELSE IF Head(s) = ch THEN << piece >> \o SplitFrom(Tail(s), ch, << >>)
    ELSE SplitFrom(Tail(s), ch, Append(piece, Head(s)))

\* s.split(ch) for a one-character separator.
Split(s, ch) == SplitFrom(s, ch, << >>)

Digit(d) == Alphabet[Ord("0") + d]

RECURSIVE Str(_)
\* str(n) for an int n >= 0.
Str(n) == IF n < 10 THEN << Digit(n) >> ELSE Str(n \div 10) \o << Digit(n % 10) >>

RECURSIVE LexLess(_, _)
\* a < b on Python strings.
LexLess(a, b) ==
    IF b = << >> THEN FALSE
    ELSE IF a = << >> THEN TRUE
    ELSE IF Head(a) = Head(b) THEN LexLess(Tail(a), Tail(b))
    ELSE Ord(Head(a)) < Ord(Head(b))

\* sorted(list) on a list of distinct strings.
Sorted(list) == SortSeq(list, LexLess)

(***************************************************************************)
(* State.                                                                  *)
(***************************************************************************)
VARIABLES
    pc,               \* position of the running script
    exit,             \* "running", "ok", or the exception that ended the run
    uprn_col,         \* the identifier source's rows, in order
    UPRN_LISTS,       \* result of get_uprns
    index,            \* group counter of the main loop
    uprn_list,        \* the group being processed
    swapped_list,     \* its pair-swapped copy
    address_images,   \* AddressImage objects of the group
    calendar_images,  \* CalendarImage objects of the group
    address_side,     \* last AddressSide built
    calendar_side,    \* last CalendarSide built
    stdout,           \* lines printed by the main loop
    out,              \* the ./out directory: entries [name, image] in directory order
    paths,            \* convert_to_pdf: sorted paths, then the chunks of them
    sub_i,            \* convert_to_pdf: sublists taken from paths so far
    img_i,            \* convert_to_pdf: images taken from the current sublist
    list_count,       \* convert_to_pdf
    img_count,        \* convert_to_pdf
    loaded_images,    \* convert_to_pdf: the name's binding
    first_image,      \* convert_to_pdf: the name's binding
    pdfs,             \* documents written, in order: [path, pages]
    gc_collected,     \* number of gc.collect() calls made
    uprn_diff,        \* get_lost_uprns.py: the list it prints
    row,              \* Calendar: the row fetched from the data source
    calendar,         \* Calendar: the object's attributes
    image_type,       \* CalendarImage.image_type binding
    wrapped,          \* CalendarImage: the wrapped strings drawn on the card
    wrap_string,      \* wrap_text: argument
    wrap_width,       \* wrap_text: argument
    wrap_lines        \* wrap_text: result binding

orchVars == << uprn_col, UPRN_LISTS, index, uprn_list, swapped_list,
               address_images, calendar_images, address_side, calendar_side,
               stdout >>
pdfVars == << paths, sub_i, img_i, list_count, img_count, loaded_images,
              first_image, pdfs, gc_collected >>
calVars == << row, calendar, image_type, wrapped >>
wrapVars == << wrap_string, wrap_width, wrap_lines >>
vars == << pc, exit, orchVars, out, pdfVars, uprn_diff, calVars, wrapVars >>

\* A Python name that is not bound, and one bound to v.
Unbound == [bound |-> FALSE, value |-> << >>]
Bound(v) == [bound |-> TRUE, value |-> v]

(***************************************************************************)
(* Identifiers (UPRNs) and the identifier source.                          *)
(***************************************************************************)
Pool ==
    << << "1", "7" >>, << "0", "4" >>, << "2", "1" >>, << "0", "9" >>,
       << "1", "3" >>, << "3", "0" >>, << "0", "2" >>, << "2", "8" >>,
       << "1", "1" >>, << "0", "6" >>, << "2", "-", "5" >> >>

Batch(n, start, stride) ==
    [i \in 1..n |-> Pool[((start + (i - 1) * stride) % Len(Pool)) + 1]]

\* What cursor.fetchall() may return: distinct identifiers, in any of these orders.
Batches ==
    { Batch(n, start, stride) :
        n \in 0..MaxN, start \in 0..(Len(Pool) - 1), stride \in 1..MaxStride }

(***************************************************************************)
(* get_uprns                                                               *)
(***************************************************************************)
GroupSize == 4

\* [uprns[i:i + 4] for i in range(0, len(uprns), 4)]
GetUprns(uprns) ==
    [k \in 1..((Len(uprns) + GroupSize - 1) \div GroupSize) |->
        Slice(uprns, GroupSize * (k - 1), GroupSize * (k - 1) + GroupSize)]

(***************************************************************************)
(* Cards, sides and files.                                                 *)
(***************************************************************************)
\* CalendarSide.positions: X and Y offsets for top-left, top-right,
\* bottom-left, bottom-right.
CalendarPositions ==
    << << 82, 47 >>, << 2657, 47 >>, << 82, 1890 >>, << 2657, 1890 >> >>

\* AddressSide.positions: X and Y offsets for top-left, top-right, bottom-left,
\* bottom-right.
Positions == << << 82, 47 >>, << 2657, 47 >>, << 82, 1890 >>, << 2657, 1890 >> >>

\* AddressImage(address, index): the card carries the stamps drawn on it.
AddressImage(uprn, number) ==
    [kind |-> "address", uprn |-> uprn, index |-> number]

\* Faulty variant: the calendar card is stamped with its loop number.
CalendarIndexUnmapped(number) == number

\* CalendarImage.__init__: the index stamped is the remapped one.
CalendarIndex(number) ==
    CASE number = 1 -> 2
      [] number = 2 -> 1
      [] number = 3 -> 4
      [] number = 4 -> 3

CalendarImage(uprn, number) ==
    [kind |-> "calendar", uprn |-> uprn, index |-> CalendarIndex(number)]

\* Faulty variant: the calendar cards are built in the group's own order.
SwappedListUnswapped(l) == << l[1], l[2], l[3], l[4] >>

\* swapped_list = [uprn_list[1], uprn_list[0], uprn_list[3], uprn_list[2]]
SwappedList(l) == << l[2], l[1], l[4], l[3] >>

\* build_address_side: paste card i at positions[i].
BuildSide(image_list) ==
    [i \in 1..Len(image_list) |-> [at |-> Positions[i], card |-> image_list[i]]]

\* build_calendar_side: paste card i at positions[i].
BuildCalendarSide(image_list) ==
    [i \in 1..Len(image_list) |->
        [at |-> CalendarPositions[i], card |-> image_list[i]]]

RECURSIVE AddressFilename(_, _)
\* filename = ['addr']; for each image: filename = [uprn] + filename
AddressFilename(image_list, filename) ==
    IF image_list = << >> THEN filename
    ELSE AddressFilename(Tail(image_list), << Head(image_list).uprn >> \o filename)

\* Faulty variant: the swapped order is kept in the calendar sheet's name.
UnflippedUprnsKeptSwapped(uprns) ==
    << uprns[1], uprns[2], uprns[3], uprns[4], << "c", "a", "l" >> >>

\* unflipped_uprns = [uprns[2], uprns[3], uprns[0], uprns[1], 'cal']
UnflippedUprns(uprns) ==
    << uprns[3], uprns[4], uprns[1], uprns[2], << "c", "a", "l" >> >>

Dash == << "-" >>
OutDir == << ".", "/", "o", "u", "t" >>
Jpg == << ".", "j", "p", "g" >>

\* The directory entry save_image writes: '{}.jpg'.format(filename) under ./out
EntryName(filename) == filename \o Jpg

\* os.path.join('./out', f), and save_image's out_path './out/{}.jpg'
OutPath(name) == OutDir \o << "/" >> \o name

\* image.save(out_path): a new entry, or the old entry's content replaced.
WriteFile(dir, name, image) ==
    IF \E i \in DOMAIN dir : dir[i].name = name
    THEN [i \in DOMAIN dir |->
            IF dir[i].name = name THEN [name |-> name, image |-> image] ELSE dir[i]]
    ELSE Append(dir, [name |-> name, image |-> image])

\* os.listdir('./out'), next(os.walk('./out'))[2]
ListDir(dir) == [i \in DOMAIN dir |-> dir[i].name]

\* AddressSide.__init__: the name handed to save_image.
AddressSideFilename(address_image_list) ==
    Join(Dash, AddressFilename(address_image_list, << << "a", "d", "d", "r" >> >>))

\* CalendarSide.__init__: the name handed to save_image.
CalendarSideFilename(calendar_image_list) ==
    Join(Dash,
         UnflippedUprns([i \in DOMAIN calendar_image_list |->
                            calendar_image_list[i].uprn]))

(***************************************************************************)
(* The main script, lines 496-524.                                         *)
(***************************************************************************)
NoSide == [new_file |-> << >>, image |-> << >>]

InitOrchestrator ==
    /\ UPRN_LISTS = << >>
    /\ index = 0
    /\ uprn_list = << >>
    /\ swapped_list = << >>
    /\ address_images = << >>
    /\ calendar_images = << >>
    /\ address_side = NoSide
    /\ calendar_side = NoSide
    /\ stdout = << >>

InitPdf ==
    /\ paths = << >>
    /\ sub_i = 0
    /\ img_i = 0
    /\ list_count = 0
    /\ img_count = 0
    /\ loaded_images = Unbound
    /\ first_image = Unbound
    /\ pdfs = << >>
    /\ gc_collected = 0

\* Python's None: a value that is no string.
None == << "None" >>

NoRow ==
    [REFDay |-> None, REFWeek |-> 0, RECYDay |-> None, RECYWeek |-> 0,
     GWDay |-> None, GWWeek |-> 0]

InitCalendar ==
    /\ row = NoRow
    /\ calendar = [uprn |-> << >>]
    /\ image_type = Unbound
    /\ wrapped = << >>

InitWrap ==
    /\ wrap_string = << >>
    /\ wrap_width = 0
    /\ wrap_lines = Unbound

\* UPRN_LISTS = get_uprns(CONN)
CallGetUprns ==
    /\ pc = "get_uprns"
    /\ UPRN_LISTS' = GetUprns(uprn_col)
    /\ pc' = "for_groups"
    /\ UNCHANGED << exit, uprn_col, index, uprn_list, swapped_list, address_images,
                    calendar_images, address_side, calendar_side, stdout, out,
                    pdfVars, uprn_diff, calVars, wrapVars >>

\* Lines 506-510: take the next group, or leave the loop; indexing a group of
\* fewer than four identifiers raises IndexError, which nothing catches.
ForGroup ==
    /\ pc = "for_groups"
    /\ IF index < Len(UPRN_LISTS)
       THEN /\ index' = index + 1
            /\ uprn_list' = UPRN_LISTS[index + 1]
            /\ calendar_images' = << >>
            /\ address_images' = << >>
            /\ IF Len(UPRN_LISTS[index + 1]) < GroupSize
               THEN /\ pc' = "exited"
                    /\ exit' = "IndexError"
                    /\ UNCHANGED swapped_list
               ELSE /\ pc' = "address_loop"
                    /\ swapped_list' = SwappedList(UPRN_LISTS[index + 1])
                    /\ UNCHANGED exit
       ELSE /\ pc' = "convert_to_pdf"
            /\ UNCHANGED << exit, index, uprn_list, swapped_list, address_images,
                            calendar_images >>
    /\ UNCHANGED << uprn_col, UPRN_LISTS, address_side, calendar_side, stdout, out,
                    pdfVars, uprn_diff, calVars, wrapVars >>

\* Faulty variant: the address sheet is built and saved as soon as the address loop
\* ends, before any calendar record is fetched.
AddressStepSavingSide ==
    /\ pc = "address_loop"
    /\ \E raised \in BOOLEAN :
        IF raised
        THEN /\ pc' = "exited"
             /\ exit' = "FetchError"
             /\ UNCHANGED << address_images, address_side, out >>
        ELSE LET images == Append(address_images,
                                  AddressImage(uprn_list[Len(address_images) + 1],
                                               Len(address_images) + 1))
                 name == EntryName(AddressSideFilename(images))
             IN /\ address_images' = images
                /\ IF Len(images) = Len(uprn_list)
                   THEN /\ pc' = "calendar_loop"
                        /\ out' = WriteFile(out, name, BuildSide(images))
                        /\ address_side' = [new_file |-> OutPath(name),
                                            image |-> BuildSide(images)]
                   ELSE /\ pc' = "address_loop"
                        /\ UNCHANGED << address_side, out >>
                /\ UNCHANGED exit
    /\ UNCHANGED << uprn_col, UPRN_LISTS, index, uprn_list, swapped_list,
                    calendar_images, calendar_side, stdout,
                    pdfVars, uprn_diff, calVars, wrapVars >>

\* Lines 511-514, one iteration: Address(CONN, uprn) and AddressImage(address,
\* number) either raise (the query fails, the row is missing or holds a NULL;
\* nothing catches it, exit "FetchError") or give the card of the record.
AddressStep ==
    /\ pc = "address_loop"
    /\ \E raised \in BOOLEAN :
        IF raised
        THEN /\ pc' = "exited"
             /\ exit' = "FetchError"
             /\ UNCHANGED address_images
        ELSE /\ address_images' =
                    Append(address_images,
                           AddressImage(uprn_list[Len(address_images) + 1],
                                        Len(address_images) + 1))
             /\ pc' = IF Len(address_images) + 1 = Len(uprn_list)
                      THEN "calendar_loop" ELSE "address_loop"
             /\ UNCHANGED exit
    /\ UNCHANGED << uprn_col, UPRN_LISTS, index, uprn_list, swapped_list,
                    calendar_images, address_side, calendar_side, stdout, out,
                    pdfVars, uprn_diff, calVars, wrapVars >>

\* Lines 515-518, one iteration, over swapped_list: Calendar(CONN, uprn) and
\* CalendarImage(calendar, number) either raise (as above, or KeyError in
\* format_calendar_strings) or give the card. The card's collection strings
\* do not enter the sheet's name or position; SpecCal follows them.
CalendarStep ==
    /\ pc = "calendar_loop"
    /\ \E raised \in BOOLEAN :
        IF raised
        THEN /\ pc' = "exited"
             /\ exit' = "FetchError"
             /\ UNCHANGED calendar_images
        ELSE /\ calendar_images' =
                    Append(calendar_images,
                           CalendarImage(swapped_list[Len(calendar_images) + 1],
                                         Len(calendar_images) + 1))
             /\ pc' = IF Len(calendar_images) + 1 = Len(swapped_list)
                      THEN "address_side" ELSE "calendar_loop"
             /\ UNCHANGED exit
    /\ UNCHANGED << uprn_col, UPRN_LISTS, index, uprn_list, swapped_list,
                    address_images, address_side, calendar_side, stdout, out,
                    pdfVars, uprn_diff, calVars, wrapVars >>

\* Line 519: AddressSide(address_images) pastes the cards and saves the sheet.
MakeAddressSide ==
    /\ pc = "address_side"
    /\ LET image == BuildSide(address_images)
           name == EntryName(AddressSideFilename(address_images))
       IN /\ out' = WriteFile(out, name, image)
          /\ address_side' = [new_file |-> OutPath(name), image |-> image]
    /\ pc' = "calendar_side"
    /\ UNCHANGED << exit, uprn_col, UPRN_LISTS, index, uprn_list, swapped_list,
                    address_images, calendar_images, calendar_side, stdout,
                    pdfVars, uprn_diff, calVars, wrapVars >>

\* Line 520: CalendarSide(calendar_images) pastes the cards and saves the sheet.
MakeCalendarSide ==
    /\ pc = "calendar_side"
    /\ LET image == BuildCalendarSide(calendar_images)
           name == EntryName(CalendarSideFilename(calendar_images))
       IN /\ out' = WriteFile(out, name, image)
          /\ calendar_side' = [new_file |-> OutPath(name), image |-> image]
    /\ pc' = "print"
    /\ UNCHANGED << exit, uprn_col, UPRN_LISTS, index, uprn_list, swapped_list,
                    address_images, calendar_images, address_side, stdout,
                    pdfVars, uprn_diff, calVars, wrapVars >>

\* Lines 521-522.
PrintFiles ==
    /\ pc = "print"
    /\ stdout' = stdout \o << << index, address_side.new_file >>,
                              << index, calendar_side.new_file >> >>
    /\ pc' = "for_groups"
    /\ UNCHANGED << exit, uprn_col, UPRN_LISTS, index, uprn_list, swapped_list,
                    address_images, calendar_images, address_side, calendar_side,
                    out, pdfVars, uprn_diff, calVars, wrapVars >>

(***************************************************************************)
(* convert_to_pdf, lines 468-494.                                          *)
(***************************************************************************)
ChunkCap == 150

\* [paths[i:i + 150] for i in range(0, len(paths), 150)]
ChunkPaths(list) ==
    [k \in 1..((Len(list) + ChunkCap - 1) \div ChunkCap) |->
        Slice(list, ChunkCap * (k - 1), ChunkCap * (k - 1) + ChunkCap)]

\* sorted([os.path.join('./out', f) for f in next(os.walk('./out'))[2]])
SortedPaths(dir) == Sorted([i \in DOMAIN dir |-> OutPath(ListDir(dir)[i])])

\* './{}-output.pdf'.format(list_count)
PdfPath(n) ==
    << ".", "/" >> \o Str(n)
        \o << "-", "o", "u", "t", "p", "u", "t", ".", "p", "d", "f" >>

\* Faulty variant: only the very first image of the run is taken as a first page.
IsFirstImageOfRun(count) == count = 0

\* if img_count % 150 == 0
IsFirstImage(count) == count % ChunkCap = 0

\* Lines 472-476.
PdfStart ==
    /\ pc = "convert_to_pdf"
    /\ paths' = ChunkPaths(SortedPaths(out))
    /\ list_count' = 0
    /\ img_count' = 0
    /\ sub_i' = 0
    /\ pc' = "for_sublist"
    /\ UNCHANGED << exit, orchVars, out, img_i, loaded_images, first_image, pdfs,
                    gc_collected, uprn_diff, calVars, wrapVars >>

\* Lines 477-478: take the next sublist and bind loaded_images to a new list,
\* or leave the loop and return.
ForSublist ==
    /\ pc = "for_sublist"
    /\ IF sub_i < Len(paths)
       THEN /\ sub_i' = sub_i + 1
            /\ img_i' = 0
            /\ loaded_images' = Bound(<< >>)
            /\ pc' = "for_image"
       ELSE /\ pc' = "close"
            /\ UNCHANGED << sub_i, img_i, loaded_images >>
    /\ UNCHANGED << exit, orchVars, out, paths, list_count, img_count, first_image,
                    pdfs, gc_collected, uprn_diff, calVars, wrapVars >>

\* Lines 479-484: open the next image of the sublist, or leave the inner loop.
\* An opened image is identified by the path it was opened from.
OpenImage ==
    /\ pc = "for_image"
    /\ IF img_i < Len(paths[sub_i])
       THEN /\ IF IsFirstImage(img_count)
               THEN /\ first_image' = Bound(paths[sub_i][img_i + 1])
                    /\ UNCHANGED loaded_images
               ELSE /\ loaded_images' =
                        Bound(Append(loaded_images.value, paths[sub_i][img_i + 1]))
                    /\ UNCHANGED first_image
            /\ img_count' = img_count + 1
            /\ img_i' = img_i + 1
            /\ UNCHANGED pc
       ELSE /\ pc' = "save"
            /\ UNCHANGED << img_i, img_count, first_image, loaded_images >>
    /\ UNCHANGED << exit, orchVars, out, paths, sub_i, list_count, pdfs,
                    gc_collected, uprn_diff, calVars, wrapVars >>

\* Lines 485-491: first_image.save(path, save_all=True, append_images=loaded_images)
SavePdf ==
    /\ pc = "save"
    /\ list_count' = list_count + 1
    /\ pdfs' = Append(pdfs, [path |-> PdfPath(list_count + 1),
                             pages |-> << first_image.value >> \o loaded_images.value])
    /\ pc' = "del"
    /\ UNCHANGED << exit, orchVars, out, paths, sub_i, img_i, img_count,
                    loaded_images, first_image, gc_collected, uprn_diff, calVars,
                    wrapVars >>

\* Faulty variant: the del statement is missing.
AfterDelMissing(binding) == binding

\* del loaded_images
AfterDel(binding) == Unbound

\* Line 493.
DelLoadedImages ==
    /\ pc = "del"
    /\ loaded_images' = AfterDel(loaded_images)
    /\ pc' = "gc"
    /\ UNCHANGED << exit, orchVars, out, paths, sub_i, img_i, list_count, img_count,
                    first_image, pdfs, gc_collected, uprn_diff, calVars, wrapVars >>

\* Line 494.
GcCollect ==
    /\ pc = "gc"
    /\ gc_collected' = gc_collected + 1
    /\ pc' = "for_sublist"
    /\ UNCHANGED << exit, orchVars, out, paths, sub_i, img_i, list_count, img_count,
                    loaded_images, first_image, pdfs, uprn_diff, calVars, wrapVars >>

\* Line 524: CONN.close(), and the script ends.
Close ==
    /\ pc = "close"
    /\ pc' = "exited"
    /\ exit' = "ok"
    /\ UNCHANGED << orchVars, out, pdfVars, uprn_diff, calVars, wrapVars >>

(***************************************************************************)
(* get_lost_uprns.py, run after the main script has ended.                 *)
(***************************************************************************)
AddrSuffix == << "-", "a", "d", "d", "r", ".", "j", "p", "g" >>

\* Faulty variant: one character too many is cut from the file name.
TrimmedTooMuch(f) == DropLast(f, 10)

\* f[:-9]
Trimmed(f) == DropLast(f, 9)

RECURSIVE Flatten(_)
\* [uprn for sublist in proc_uprns for uprn in sublist]
Flatten(lists) == IF lists = << >> THEN << >> ELSE Head(lists) \o Flatten(Tail(lists))

\* Lines 16-23.
ProcUprns(listdir) ==
    LET IsAddr(f) == EndsWith(f, AddrSuffix)
        files == SelectSeq(listdir, IsAddr)
    IN Flatten([i \in DOMAIN files |-> Split(Trimmed(files[i]), "-")])

\* Lines 31-32; batch_uprns is the first column of the batch's CSV.
UprnDiff(listdir, batch_uprns) ==
    LET uprn_set == Range(ProcUprns(listdir))
        NotProcessed(uprn) == uprn \notin uprn_set
    IN SelectSeq(batch_uprns, NotProcessed)

\* The whole script; the batch file lists what the identifier source returned.
GetLostUprns ==
    /\ pc = "exited"
    /\ uprn_diff' = Bound(UprnDiff(ListDir(out), uprn_col))
    /\ pc' = "reconciled"
    /\ UNCHANGED << exit, orchVars, out, pdfVars, calVars, wrapVars >>

(***************************************************************************)
(* Spec: one run of generate_multi_image.py over an empty ./out, followed  *)
(* by get_lost_uprns.py.                                                   *)
(***************************************************************************)
Init ==
    /\ pc = "get_uprns"
    /\ exit = "running"
    /\ uprn_col \in Batches
    /\ InitOrchestrator
    /\ out = << >>
    /\ InitPdf
    /\ uprn_diff = Unbound
    /\ InitCalendar
    /\ InitWrap

Next ==
    \/ CallGetUprns
    \/ ForGroup
    \/ AddressStep
    \/ CalendarStep
    \/ MakeAddressSide
    \/ MakeCalendarSide
    \/ PrintFiles
    \/ PdfStart
    \/ ForSublist
    \/ OpenImage
    \/ SavePdf
    \/ DelLoadedImages
    \/ GcCollect
    \/ Close
    \/ GetLostUprns

Spec == Init /\ [][Next]_vars

(***************************************************************************)
(* Properties of the run (Spec).                                           *)
(***************************************************************************)
\* The pieces of a saved sheet's file name: './out/<stem>.jpg' -> stem.split('-')
NameParts(new_file) ==
    Split(SubSeq(new_file, Len(OutDir) + 2, Len(new_file) - Len(Jpg)), "-")

NoDash(ids) == \A i \in DOMAIN ids : "-" \notin Range(ids[i])

AddrTag == << "a", "d", "d", "r" >>
CalTag == << "c", "a", "l" >>

\* The identifiers stamped on the cards of a sheet image.
StampedUprns(image) == { image[i].card.uprn : i \in DOMAIN image }

\* ./out holds a sheet of the given kind made of the cards of group g.
HasSheet(g, kind) ==
    \E i \in DOMAIN out :
        /\ Len(out[i].image) = GroupSize
        /\ \A j \in DOMAIN out[i].image : out[i].image[j].card.kind = kind
        /\ StampedUprns(out[i].image) = Range(UPRN_LISTS[g])

FullGroups == Len(uprn_col) \div GroupSize

\* C1: when both sheets of a group [u1,u2,u3,u4] have been saved, each file
\* name split on '-' gives u1,u2,u3,u4 in that order and then the side tag,
\* 'addr' for the address sheet and 'cal' for the calendar sheet.
C1_FilenamesInOriginalOrder ==
    (pc = "print" /\ NoDash(uprn_list)) =>
        /\ NameParts(address_side.new_file) = uprn_list \o << AddrTag >>
        /\ NameParts(calendar_side.new_file) = uprn_list \o << CalTag >>

\* C2: get_uprns over N identifiers returns exactly N div 4 groups, each of
\* exactly 4 identifiers in input order; the last N mod 4 are in no group.
C2_OnlyFullGroups ==
    (pc # "get_uprns") =>
        /\ Len(UPRN_LISTS) = FullGroups
        /\ \A k \in DOMAIN UPRN_LISTS :
              UPRN_LISTS[k] = SubSeq(uprn_col, GroupSize * (k - 1) + 1, GroupSize * k)

\* C3: a run in which no fetch fails ends normally: it has saved both sheets
\* of each of the N div 4 full groups, raised no error over the remainder,
\* and has then run convert_to_pdf to its end.
C3_RunEndsNormally ==
    (exit \notin {"running", "FetchError"}) =>
        /\ exit = "ok"
        /\ Len(out) = 2 * FullGroups
        /\ sub_i = Len(paths)
        /\ Len(pdfs) = Len(paths)

\* C5: when a fetch for group k has raised, the run has stopped with both
\* sheets of every group before k in ./out and no sheet of group k or of a
\* later group; group k never has one sheet without the other.
C5_FetchFailureKeepsWholeGroups ==
    (exit = "FetchError") =>
        /\ pc \in {"exited", "reconciled"}
        /\ Len(out) = 2 * (index - 1)
        /\ \A g \in DOMAIN UPRN_LISTS :
              /\ HasSheet(g, "address") <=> (g < index)
              /\ HasSheet(g, "calendar") <=> (g < index)

\* C5 witness: the fetch of a calendar record of the second group raised after
\* the address cards of that group were built and the first group was saved.
C5_Witness ==
    /\ exit = "FetchError"
    /\ index = 2
    /\ Len(address_images) = GroupSize
    /\ Len(calendar_images) = 2
    /\ Len(out) = 2

\* The entries of ./out that are address sheets.
AddressEntries == { i \in DOMAIN out : EndsWith(out[i].name, AddrSuffix) }

\* An identifier is on some saved address sheet.
OnAddressSheet(uprn) ==
    \E i \in AddressEntries : uprn \in StampedUprns(out[i].image)

\* C7: for identifiers without '-', the name of every address sheet, trimmed
\* and split as the utility does, gives exactly the four identifiers on that
\* sheet; the utility reports, in batch order, exactly the batch identifiers on
\* no saved address sheet, and after a run without fetch failure these are the
\* last N mod 4 identifiers.
C7_ReconciliationReportsUnprocessed ==
    (pc = "reconciled" /\ NoDash(uprn_col)) =>
        /\ \A i \in AddressEntries :
              LET ids == Split(Trimmed(out[i].name), "-")
              IN /\ Len(ids) = GroupSize
                 /\ Range(ids) = StampedUprns(out[i].image)
        /\ LET Lost(uprn) == ~OnAddressSheet(uprn)
           IN uprn_diff.value = SelectSeq(uprn_col, Lost)
        /\ (exit # "FetchError") =>
              uprn_diff.value =
                  SubSeq(uprn_col, GroupSize * FullGroups + 1, Len(uprn_col))

\* C7 witness: two groups were saved, the run ended on the remainder, and the
\* utility reported a non-empty list.
C7_Witness ==
    /\ pc = "reconciled"
    /\ NoDash(uprn_col)
    /\ exit = "IndexError"
    /\ Cardinality(AddressEntries) = 2
    /\ uprn_diff.value # << >>

\* C10: when both sheets of a group have been saved, the two file names carry
\* the same sequence of identifiers and differ only in the tag, 'addr' or 'cal'.
C10_SameIdentifiersOnBothSides ==
    (pc = "print") =>
        LET a == NameParts(address_side.new_file)
            c == NameParts(calendar_side.new_file)
        IN /\ Len(a) = Len(c)
           /\ Len(a) > GroupSize
           /\ SubSeq(a, 1, Len(a) - 1) = SubSeq(c, 1, Len(c) - 1)
           /\ a[Len(a)] = AddrTag
           /\ c[Len(c)] = CalTag
           /\ NoDash(uprn_list) =>
                /\ Len(a) = GroupSize + 1
                /\ Range(SubSeq(a, 1, GroupSize)) = Range(uprn_list)

\* C10 witness: both sheets of a group of four distinct identifiers are saved.
C10_Witness ==
    /\ pc = "print"
    /\ NoDash(uprn_list)
    /\ Cardinality(Range(uprn_list)) = GroupSize
    /\ Len(NameParts(address_side.new_file)) = GroupSize + 1

(***************************************************************************)
(* SpecPdf: convert_to_pdf over a ./out directory of many files, as left   *)
(* by a long run.                                                          *)
(***************************************************************************)
FileCounts == { k * ChunkCap + d : k \in 0..MaxFullChunks, d \in 0..MaxRest }

\* n files named 1.jpg .. n.jpg, listed by the file system in numeric order
\* or in reverse numeric order; neither is the lexicographic order.
Directory(n, reversed) ==
    [i \in 1..n |->
        [name |-> Str(IF reversed THEN n + 1 - i ELSE i) \o Jpg, image |-> << >>]]

InitPdfRun ==
    /\ pc = "convert_to_pdf"
    /\ exit = "running"
    /\ uprn_col = << >>
    /\ InitOrchestrator
    /\ \E n \in FileCounts, reversed \in BOOLEAN : out = Directory(n, reversed)
    /\ InitPdf
    /\ uprn_diff = Unbound
    /\ InitCalendar
    /\ InitWrap

NextPdf ==
    \/ PdfStart
    \/ ForSublist
    \/ OpenImage
    \/ SavePdf
    \/ DelLoadedImages
    \/ GcCollect

SpecPdf == InitPdfRun /\ [][NextPdf]_vars

\* All pages of all documents written, in order.
AllPages == Flatten([k \in DOMAIN pdfs |-> pdfs[k].pages])

\* C4: when convert_to_pdf has returned over n files, it has written
\* ceil(n/150) documents numbered 1,2,..; document k has min(150, n-150(k-1))
\* pages, and the pages of all documents in order are the n paths of ./out in
\* strictly increasing lexicographic order: document k holds positions
\* 150(k-1)+1 .. min(150k, n) of the sorted list, each file is one page of one
\* document, and no document is written when n = 0.
C4_DocumentsAreSortedChunks ==
    (pc = "close") =>
        LET n == Len(out)
        IN /\ Len(pdfs) = (n + ChunkCap - 1) \div ChunkCap
           /\ \A k \in DOMAIN pdfs :
                /\ pdfs[k].path = PdfPath(k)
                /\ Len(pdfs[k].pages) = Min(ChunkCap, n - ChunkCap * (k - 1))
           /\ Len(AllPages) = n
           /\ Range(AllPages) = { OutPath(out[i].name) : i \in DOMAIN out }
           /\ \A i \in 1..(n - 1) : LexLess(AllPages[i], AllPages[i + 1])

\* C4 witness: 320 files gave three documents of 150, 150 and 20 pages.
C4_Witness ==
    /\ pc = "close"
    /\ Len(out) = 2 * ChunkCap + 20
    /\ Len(pdfs) = 3
    /\ Len(pdfs[1].pages) = ChunkCap
    /\ Len(pdfs[2].pages) = ChunkCap
    /\ Len(pdfs[3].pages) = 20

\* The opened images the merger's names still refer to.
ReferencedImages ==
    (IF first_image.bound THEN { first_image.value } ELSE {})
        \cup (IF loaded_images.bound THEN Range(loaded_images.value) ELSE {})

\* Chunk sub_i is complete and the loop is about to take the next one.
NextChunkStarts == pc = "for_sublist" /\ 1 <= sub_i /\ sub_i < Len(paths)

\* C6 as claimed: when processing of chunk k+1 starts, no image opened for
\* chunk k is referenced through loaded_images or first_image, and gc.collect
\* has run after chunk k's document was saved.
C6_NoImageOfCompletedChunkReferenced ==
    NextChunkStarts =>
        /\ ReferencedImages \cap Range(paths[sub_i]) = {}
        /\ gc_collected = sub_i
        /\ Len(pdfs) = sub_i

\* C6 as amended: when processing of chunk k+1 starts, loaded_images is
\* unbound and gc.collect has run once for each saved document, the last time
\* after chunk k's document was saved; the only image of chunk k still
\* referenced is its first page, through first_image.
C6_LoadedImagesReleased ==
    /\ NextChunkStarts =>
          /\ loaded_images = Unbound
          /\ gc_collected = sub_i
          /\ Len(pdfs) = sub_i
          /\ first_image = Bound(paths[sub_i][1])
          /\ ReferencedImages \cap Range(paths[sub_i]) = { paths[sub_i][1] }
    /\ (pc = "gc") => (Len(pdfs) = gc_collected + 1 /\ loaded_images = Unbound)

\* C6 witness: the first chunk of several is complete.
C6_Witness ==
    /\ NextChunkStarts
    /\ sub_i = 1
    /\ Len(pdfs[1].pages) = ChunkCap
    /\ gc_collected = 1

(***************************************************************************)
(* Calendar, lines 64-121.                                                 *)
(***************************************************************************)
Monday == << "M", "o", "n", "d", "a", "y" >>
Tuesday == << "T", "u", "e", "s", "d", "a", "y" >>
Wednesday == << "W", "e", "d", "n", "e", "s", "d", "a", "y" >>
Thursday == << "T", "h", "u", "r", "s", "d", "a", "y" >>
Friday == << "F", "r", "i", "d", "a", "y" >>

\* self.dates: Monday..Friday -> 0..4
DayNames == << Monday, Tuesday, Wednesday, Thursday, Friday >>
HasDate(day) == \E i \in DOMAIN DayNames : DayNames[i] = day
Dates(day) == (CHOOSE i \in DOMAIN DayNames : DayNames[i] = day) - 1

FromText == << " ", " ", " ", "f", "r", "o", "m", " ", " ", " " >>
JuneText == << " ", "J", "u", "n", "e", " ", "2", "0", "1", "8" >>
NotCollected ==
    << "N", "o", "t", " ", "c", "o", "l", "l", "e", "c", "t", "e", "d" >>

\* Faulty variant: the epoch offset is left out.
DateNumberWithoutOffset(week, day) == (week * 7) + Dates(day)

\* (week * 7) + self.dates[day] + 4
DateNumber(week, day) == (week * 7) + Dates(day) + 4

\* '{}   from   {} June 2018'.format(day, str(number))
DisplayString(day, number) == day \o FromText \o Str(number) \o JuneText

\* The rows cursor.fetchone() may give: a day name or NULL, and a week offset.
Rows ==
    [REFDay : Range(DayNames) \cup {None}, REFWeek : 0..MaxWeek,
     RECYDay : Range(DayNames) \cup {None}, RECYWeek : 0..MaxWeek,
     GWDay : Range(DayNames) \cup {None}, GWWeek : 0..MaxWeek]

\* get_calendar_data: the attributes set from the row.
CalendarData(uprn, r) ==
    [uprn |-> uprn,
     black_bin_day |-> r.REFDay, black_bin_week |-> r.REFWeek,
     recycling_bin_day |-> r.RECYDay, recycling_bin_week |-> r.RECYWeek,
     recycling_box_day |-> r.RECYDay, recycling_box_week |-> r.RECYWeek,
     green_bin_day |-> r.GWDay, green_bin_week |-> r.GWWeek]

\* format_calendar_strings raises KeyError when a day looked up in self.dates
\* is not one of its keys.
FormatRaises(c) ==
    \/ ~HasDate(c.black_bin_day)
    \/ ~HasDate(c.recycling_bin_day)
    \/ (c.green_bin_day # None /\ ~HasDate(c.green_bin_day))

\* format_calendar_strings: the four strings, when nothing raises.
CalendarStrings(c) ==
    [black_bin_str |->
        DisplayString(c.black_bin_day, DateNumber(c.black_bin_week, c.black_bin_day)),
     recycling_bin_str |->
        DisplayString(c.recycling_bin_day,
                      DateNumber(c.recycling_bin_week, c.recycling_bin_day)),
     recycling_box_str |->
        IF c.recycling_box_day = c.recycling_bin_day
        THEN << >>
        ELSE DisplayString(c.recycling_box_day,
                           DateNumber(c.recycling_box_week, c.recycling_bin_day)),
     green_bin_str |->
        IF c.green_bin_day = None
        THEN NotCollected
        ELSE DisplayString(c.green_bin_day,
                           DateNumber(c.green_bin_week, c.green_bin_day))]

(***************************************************************************)
(* wrap_text, lines 412-419: textwrap.wrap(string, width=width,            *)
(* replace_whitespace=False, break_long_words=False), for strings of       *)
(* letters, digits and spaces (no tab, newline or hyphen).                 *)
(***************************************************************************)
IsSpace(chunk) == \A i \in DOMAIN chunk : chunk[i] = " "

RECURSIVE SplitChunks(_, _)
\* TextWrapper._split: the maximal runs of spaces and of other characters.
SplitChunks(s, chunk) ==
    IF s = << >> THEN (IF chunk = << >> THEN << >> ELSE << chunk >>)
    ELSE IF chunk = << >> \/ ((Head(s) = " ") <=> (chunk[1] = " "))
         THEN SplitChunks(Tail(s), Append(chunk, Head(s)))
         ELSE << chunk >> \o SplitChunks(Tail(s), << Head(s) >>)

RECURSIVE FitCount(_, _, _)
\* The inner while loop of _wrap_chunks: how many chunks go on the line.
FitCount(chunks, cur_len, width) ==
    IF chunks # << >> /\ cur_len + Len(Head(chunks)) <= width
    THEN 1 + FitCount(Tail(chunks), cur_len + Len(Head(chunks)), width)
    ELSE 0

\* Faulty variant: break_long_words is left at its default, True.
HandleLongWordBreaking(chunks, cur_line, width) ==
    LET space_left == width - Len(Concat(cur_line))
    IN [cur_line |-> Append(cur_line, SubSeq(Head(chunks), 1, space_left)),
        chunks |-> << SubSeq(Head(chunks), space_left + 1, Len(Head(chunks))) >>
                       \o Tail(chunks)]

\* TextWrapper._handle_long_word with break_long_words=False: a chunk longer
\* than the width goes whole on a line of its own.
HandleLongWord(chunks, cur_line, width) ==
    IF cur_line = << >>
    THEN [cur_line |-> << Head(chunks) >>, chunks |-> Tail(chunks)]
    ELSE [cur_line |-> cur_line, chunks |-> chunks]

RECURSIVE WrapChunks(_, _, _)
\* TextWrapper._wrap_chunks, one line per call, with drop_whitespace=True.
WrapChunks(chunks, width, lines) ==
    IF chunks = << >> THEN lines
    ELSE
        LET kept == IF IsSpace(Head(chunks)) /\ lines # << >>
                    THEN Tail(chunks) ELSE chunks
            k == FitCount(kept, 0, width)
            fitted == [cur_line |-> SubSeq(kept, 1, k),
                       chunks |-> SubSeq(kept, k + 1, Len(kept))]
            filled == IF fitted.chunks # << >> /\ Len(Head(fitted.chunks)) > width
                      THEN HandleLongWord(fitted.chunks, fitted.cur_line, width)
                      ELSE fitted
            cur_line == IF filled.cur_line # << >>
                           /\ IsSpace(filled.cur_line[Len(filled.cur_line)])
                        THEN SubSeq(filled.cur_line, 1, Len(filled.cur_line) - 1)
                        ELSE filled.cur_line
        IN WrapChunks(filled.chunks, width,
                      IF cur_line # << >>
                      THEN Append(lines, Concat(cur_line)) ELSE lines)

\* wrap_text(string, width)
WrapText(string, width) == WrapChunks(SplitChunks(string, << >>), width, << >>)

\* The width every calendar string is wrapped to.
CalendarWrapWidth == 7

(***************************************************************************)
(* SpecCal: one Calendar and its CalendarImage, lines 68-241, for every    *)
(* row the data source may give.                                           *)
(***************************************************************************)
InitCalendarRun ==
    /\ pc = "get_calendar_data"
    /\ exit = "running"
    /\ uprn_col = << >>
    /\ InitOrchestrator
    /\ out = << >>
    /\ InitPdf
    /\ uprn_diff = Unbound
    /\ row \in Rows
    /\ calendar = [uprn |-> Pool[1]]
    /\ image_type = Unbound
    /\ wrapped = << >>
    /\ InitWrap

\* Lines 83-99.
GetCalendarData ==
    /\ pc = "get_calendar_data"
    /\ calendar' = CalendarData(calendar.uprn, row)
    /\ pc' = "format_calendar_strings"
    /\ UNCHANGED << exit, orchVars, out, pdfVars, uprn_diff, row, image_type,
                    wrapped, wrapVars >>

\* Lines 101-121.
FormatCalendarStrings ==
    /\ pc = "format_calendar_strings"
    /\ IF FormatRaises(calendar)
       THEN /\ pc' = "exited"
            /\ exit' = "KeyError"
            /\ UNCHANGED calendar
       ELSE /\ calendar' =
                 [f \in DOMAIN calendar \cup DOMAIN CalendarStrings(calendar) |->
                     IF f \in DOMAIN calendar
                     THEN calendar[f] ELSE CalendarStrings(calendar)[f]]
            /\ pc' = "load_calendar_image"
            /\ UNCHANGED exit
    /\ UNCHANGED << orchVars, out, pdfVars, uprn_diff, row, image_type, wrapped,
                    wrapVars >>

\* Lines 146-154: image_type is bound only for a same-day collection.
LoadCalendarImage ==
    /\ pc = "load_calendar_image"
    /\ image_type' = IF calendar.recycling_box_str = << >>
                     THEN Bound("SAME_COLLECTION") ELSE image_type
    /\ pc' = "build_calendar_image"
    /\ UNCHANGED << exit, orchVars, out, pdfVars, uprn_diff, row, calendar,
                    wrapped, wrapVars >>

\* Lines 156-241: reading an unbound image_type raises AttributeError; the
\* four strings are wrapped to seven columns and drawn.
BuildCalendarImage ==
    /\ pc = "build_calendar_image"
    /\ IF ~image_type.bound
       THEN /\ pc' = "exited"
            /\ exit' = "AttributeError"
            /\ UNCHANGED wrapped
       ELSE /\ wrapped' =
                 IF image_type.value = "SAME_COLLECTION"
                 THEN [black_bin_str |->
                          WrapText(calendar.black_bin_str, CalendarWrapWidth),
                       recycling_bin_str |->
                          WrapText(calendar.recycling_bin_str, CalendarWrapWidth),
                       recycling_box_str |->
                          WrapText(calendar.recycling_box_str, CalendarWrapWidth),
                       green_bin_str |->
                          WrapText(calendar.green_bin_str, CalendarWrapWidth)]
                 ELSE wrapped
            /\ pc' = "card_built"
            /\ UNCHANGED exit
    /\ UNCHANGED << orchVars, out, pdfVars, uprn_diff, row, calendar, image_type,
                    wrapVars >>

NextCal ==
    \/ GetCalendarData
    \/ FormatCalendarStrings
    \/ LoadCalendarImage
    \/ BuildCalendarImage

SpecCal == InitCalendarRun /\ [][NextCal]_vars

\* The string the card is to show for day d and week offset w.
ClaimedString(d, w) ==
    d \o FromText
      \o Str((w * 7) + (CHOOSE i \in 0..4 : DayNames[i + 1] = d) + 4)
      \o JuneText

Formatted == pc \in {"load_calendar_image", "build_calendar_image", "card_built"}

\* C8: once the strings are formatted, each of the refuse, recycling-bin and
\* garden-waste strings whose day d is Monday..Friday with week offset w is
\* '<d>   from   <(w*7)+index(d)+4> June 2018', and so is the recycling-box
\* string whenever it is not empty; week 1, Wednesday gives
\* 'Wednesday   from   13 June 2018'.
C8_DisplayStrings ==
    Formatted =>
        /\ calendar.black_bin_str =
              ClaimedString(calendar.black_bin_day, calendar.black_bin_week)
        /\ calendar.recycling_bin_str =
              ClaimedString(calendar.recycling_bin_day, calendar.recycling_bin_week)
        /\ (calendar.green_bin_day # None) =>
              calendar.green_bin_str =
                  ClaimedString(calendar.green_bin_day, calendar.green_bin_week)
        /\ (calendar.recycling_box_str # << >>) =>
              calendar.recycling_box_str =
                  ClaimedString(calendar.recycling_box_day, calendar.recycling_box_week)
        /\ (calendar.black_bin_day = Wednesday /\ calendar.black_bin_week = 1) =>
              calendar.black_bin_str =
                  << "W", "e", "d", "n", "e", "s", "d", "a", "y", " ", " ", " ",
                     "f", "r", "o", "m", " ", " ", " ", "1", "3", " ",
                     "J", "u", "n", "e", " ", "2", "0", "1", "8" >>

\* C8 witness: strings were formatted for refuse on Wednesday of week 1,
\* recycling on Friday of week 0 and garden waste on Monday of week 1.
C8_Witness ==
    /\ pc = "card_built"
    /\ calendar.black_bin_day = Wednesday /\ calendar.black_bin_week = 1
    /\ calendar.recycling_bin_day = Friday /\ calendar.recycling_bin_week = 0
    /\ calendar.green_bin_day = Monday /\ calendar.green_bin_week = 1
    /\ calendar.black_bin_str = DisplayString(Wednesday, 13)
    /\ calendar.recycling_bin_str = DisplayString(Friday, 8)
    /\ calendar.green_bin_str = DisplayString(Monday, 11)

(***************************************************************************)
(* SpecWrap: wrap_text on free-form strings and on every calendar string.  *)
(***************************************************************************)
RECURSIVE StringsUpTo(_)
\* The strings of 'a' and ' ' of length at most n.
StringsUpTo(n) ==
    IF n = 0 THEN { << >> }
    ELSE LET shorter == StringsUpTo(n - 1)
         IN shorter \cup { Append(x, c) : x \in shorter, c \in {"a", " "} }

\* Every string format_calendar_strings can produce.
CalendarStringSet ==
    { DisplayString(DayNames[i], DateNumber(w, DayNames[i])) :
        i \in DOMAIN DayNames, w \in 0..MaxWeek } \cup { NotCollected, << >> }

InitWrapRun ==
    /\ pc = "wrap_text"
    /\ exit = "running"
    /\ uprn_col = << >>
    /\ InitOrchestrator
    /\ out = << >>
    /\ InitPdf
    /\ uprn_diff = Unbound
    /\ InitCalendar
    /\ \/ wrap_string \in StringsUpTo(MaxLen) /\ wrap_width \in 1..MaxWidth
       \/ wrap_string \in CalendarStringSet /\ wrap_width = CalendarWrapWidth
    /\ wrap_lines = Unbound

CallWrapText ==
    /\ pc = "wrap_text"
    /\ wrap_lines' = Bound(WrapText(wrap_string, wrap_width))
    /\ pc' = "wrapped"
    /\ UNCHANGED << exit, orchVars, out, pdfVars, uprn_diff, calVars, wrap_string,
                    wrap_width >>

NextWrap == CallWrapText

SpecWrap == InitWrapRun /\ [][NextWrap]_vars

\* The words of a string: its maximal runs of characters other than spaces.
WordsOf(string) ==
    LET NotEmpty(piece) == piece # << >>
    IN SelectSeq(Split(string, " "), NotEmpty)

\* The lines keep the words of the string whole and in order.
KeepsWords(string, lines) ==
    Flatten([i \in DOMAIN lines |-> WordsOf(lines[i])]) = WordsOf(string)

\* C9 as claimed: every line wrap_text returns is at most W characters long
\* and no line boundary falls inside a word.
C9_LinesFitAndKeepWords ==
    (pc = "wrapped") =>
        /\ \A i \in DOMAIN wrap_lines.value : Len(wrap_lines.value[i]) <= wrap_width
        /\ KeepsWords(wrap_string, wrap_lines.value)

\* C9 as amended: no line boundary falls inside a word, and every line is at
\* most W characters long unless it is a single word longer than W, which is
\* kept whole on a line of its own.
C9_LinesFitUnlessOneLongWord ==
    (pc = "wrapped") =>
        /\ \A i \in DOMAIN wrap_lines.value :
              \/ Len(wrap_lines.value[i]) <= wrap_width
              \/ WordsOf(wrap_lines.value[i]) = << wrap_lines.value[i] >>
        /\ KeepsWords(wrap_string, wrap_lines.value)

\* C9 witness: 'Wednesday   from   13 June 2018' wrapped to 7 columns gives
\* 'Wednesday', 'from', '13 June', '2018'.
C9_Witness ==
    /\ pc = "wrapped"
    /\ wrap_width = CalendarWrapWidth
    /\ wrap_string = DisplayString(Wednesday, 13)
    /\ wrap_lines.value =
          << Wednesday, << "f", "r", "o", "m" >>,
             << "1", "3", " ", "J", "u", "n", "e" >>, << "2", "0", "1", "8" >> >>

(***************************************************************************)
(* Back-to-back alignment of the two sheets of a group (Spec).             *)
(***************************************************************************)
\* The paste of the card stamped with the identifier, on a sheet image.
PasteOf(image, uprn) == image[CHOOSE i \in DOMAIN image : image[i].card.uprn = uprn]

\* Each of the indices 1..4 is stamped on exactly one card of the sheet.
EachIndexOnce(image) ==
    /\ Len(image) = GroupSize
    /\ \A n \in 1..GroupSize :
          Cardinality({ i \in DOMAIN image : image[i].card.index = n }) = 1

\* C11: when both sheets of a group have been saved, the index stamped on each
\* record's calendar card equals the index stamped on its address card, which
\* is the record's place 1..4 in the group (the pair swap followed by the
\* remap 1->2, 2->1, 3->4, 4->3 changes nothing), and each of 1..4 is stamped
\* on exactly one card per side.
C11_SameIndexOnBothCards ==
    (pc = "print") =>
        /\ EachIndexOnce(address_side.image)
        /\ EachIndexOnce(calendar_side.image)
        /\ \A k \in DOMAIN uprn_list :
              /\ PasteOf(address_side.image, uprn_list[k]).card.index = k
              /\ PasteOf(calendar_side.image, uprn_list[k]).card.index = k
              /\ PasteOf(address_side.image, uprn_list[k]).card.kind = "address"
              /\ PasteOf(calendar_side.image, uprn_list[k]).card.kind = "calendar"

\* C11 witness: both sheets of the second group are saved, and the calendar
\* cards were built in pair-swapped order.
C11_Witness ==
    /\ pc = "print"
    /\ index = 2
    /\ Cardinality(Range(uprn_list)) = GroupSize
    /\ [i \in 1..GroupSize |-> calendar_images[i].uprn] = swapped_list
    /\ swapped_list # uprn_list
    /\ [i \in 1..GroupSize |-> calendar_images[i].index] = << 2, 1, 4, 3 >>

\* The grid cell across the sheet's vertical axis: same row, other column
\* (cells 1..4 are top-left, top-right, bottom-left, bottom-right).
MirrorCell(cell) ==
    CASE cell = 1 -> 2
      [] cell = 2 -> 1
      [] cell = 3 -> 4
      [] cell = 4 -> 3

\* Each of the four offsets receives exactly one card of the sheet.
EachOffsetOnce(image, offsets) ==
    /\ Len(image) = GroupSize
    /\ \A c \in DOMAIN offsets :
          Cardinality({ i \in DOMAIN image : image[i].at = offsets[c] }) = 1

\* C12: when both sheets of a group have been saved, the two sides use the
\* same four offsets (two rows of two columns), each offset holds exactly one
\* card per sheet, and the calendar card of each record is pasted in the cell
\* that mirrors the cell of its address card: same row, opposite column.
C12_CalendarCardMirrorsAddressCard ==
    (pc = "print") =>
        /\ CalendarPositions = Positions
        /\ Positions[1][2] = Positions[2][2] /\ Positions[3][2] = Positions[4][2]
        /\ Positions[1][1] = Positions[3][1] /\ Positions[2][1] = Positions[4][1]
        /\ Positions[1][1] # Positions[2][1] /\ Positions[1][2] # Positions[3][2]
        /\ EachOffsetOnce(address_side.image, Positions)
        /\ EachOffsetOnce(calendar_side.image, Positions)
        /\ \A k \in DOMAIN uprn_list :
              /\ PasteOf(address_side.image, uprn_list[k]).at = Positions[k]
              /\ PasteOf(calendar_side.image, uprn_list[k]).at =
                    Positions[MirrorCell(k)]

\* C12 witness: in the saved sheets of a group the first record's address card
\* is top-left and its calendar card top-right, and the fourth record's
\* address card is bottom-right and its calendar card bottom-left.
C12_Witness ==
    /\ pc = "print"
    /\ Cardinality(Range(uprn_list)) = GroupSize
    /\ PasteOf(address_side.image, uprn_list[1]).at = << 82, 47 >>
    /\ PasteOf(calendar_side.image, uprn_list[1]).at = << 2657, 47 >>
    /\ PasteOf(address_side.image, uprn_list[4]).at = << 2657, 1890 >>
    /\ PasteOf(calendar_side.image, uprn_list[4]).at = << 82, 1890 >>

====
